---- MODULE Spec2Model ----
(***************************************************************************)
(* Model of the telegram-ai orchestration core: the per-job timer map      *)
(* (cronJobs), the per-tenant agent and thread caches, the message handler *)
(* and the cron callback, and the EventHandler that drives one run through *)
(* its tool rounds.                                                        *)
(*                                                                         *)
(* The program is single-threaded and event driven: every action below is  *)
(* the code that runs between two awaits on external I/O (the model API,   *)
(* a tool's network call).  An await on an already settled value does not  *)
(* let other I/O callbacks in, so it is part of the same action.           *)
(***************************************************************************)
EXTENDS Integers, Sequences, FiniteSets, TLC

\* ---------------------------------------------------------------- bounds
\* Inbound messages plus timer fires handled in one behaviour.
MaxTasks == 2
\* Tool rounds the upstream asks for within one run.
MaxRounds == 2
\* Tool calls in one requires-action batch.
MaxBatch == 2
\* Rows the jobs table ever holds ids for (store-assigned ids 1..MaxJobs).
MaxJobs == 2
\* Tool calls the upstream asks for in one behaviour, over all runs.
MaxCalls == 2
MaxRegs == 2

\* ------------------------------------------------------------- constants
NULL == -1

Tenants == {"t1", "t2", "t3"}
\* Tenants with a row in the tenants table; "t3" writes to the bot without one.
StoredTenants == {"t1", "t2"}
Tasks == 1..MaxTasks
JobIds == 1..MaxJobs
\* Times a prompt is scheduled at (hour, minute), and the ones an edit sets.
ArgHours == {8, 9}
ArgMinutes == {30}
Prompts == {"p"}
\* What edit_tenant calls set: system and timezone, "none" for one left out.
TenantEdits == {<<"", "none">>, <<"s2", "none">>, <<"none", "UTC">>}
\* The two versions of the agent module found in the repository.
Builds == {"part_000", "part_001"}

\* The tool names of the model: those index.ts and bing.ts register, in the
\* order of their registration, and one nobody registers.
LoadedNames == <<"bing_web_search", "retrieve_prompts", "create_prompt", "edit_prompt",
                 "delete_prompt", "edit_tenant">>
ToolNames == {LoadedNames[i] : i \in 1..Len(LoadedNames)} \cup {"unknown_tool"}
\* The registerFunction calls of the module load; each handler is called by
\* the name it is registered under.
LoadLog == [i \in 1..Len(LoadedNames) |->
              [name |-> LoadedNames[i], description |-> "d0", fn |-> LoadedNames[i]]]
\* What a further registerFunction call may bring: a description and a handler.
Registrations == {<<"d1", "stub">>, <<"d2", "bing_web_search">>}
RegNames == {"bing_web_search", "delete_prompt", "unknown_tool"}

\* The events that end a run's stream, and what the newest assistant message
\* starts with when the run completed.
RunEndEvents == {"thread.run.completed", "thread.run.failed", "thread.run.cancelled"}
Answers == {"text", "image_file", "none"}

NoRow == [id |-> NULL]

VARIABLES
    agentBuild,   \* which version of the agent module is running
    dbTenants,    \* tenants table: tenant -> row or NoRow
    dbJobs,       \* jobs table: id -> row or NoRow
    dbSeq,        \* the store's id sequence for jobs (last id handed out)
    startupTodo,  \* jobs the startup loop has still to register
    cronJobs,     \* job id -> index of its CronJob in timers, 0 when absent
    timers,       \* the CronJob objects; a stopped one is Garbage, its place reusable
    assistants,   \* tenant -> cached agent id, 0 when absent
    agents,       \* every agent created upstream, in creation order
    threads,      \* tenant -> cached interactive thread id, 0 when absent
    threadMeta,   \* every thread created upstream, in creation order
    tasks,        \* the message handlers and cron callbacks in flight
    dispatched,   \* tool calls dispatched so far
    functions,    \* agent.ts functions: tool name -> handler, "undefined" without one
    tools,        \* agent.ts tools: tool name -> description of its descriptor
    regLog        \* the registerFunction calls made so far, in order

vars == <<agentBuild, dbTenants, dbJobs, dbSeq, startupTodo, cronJobs, timers,
          assistants, agents, threads, threadMeta, tasks, dispatched,
          functions, tools, regLog>>

\* ------------------------------------------------------------ the store

Job(id, tenant, hour, minute, prompt) ==
    [id |-> id, tenant |-> tenant, hour |-> hour, minute |-> minute, prompt |-> prompt]

StoredIds == {i \in JobIds : dbJobs[i] # NoRow}

TenantExists(tenant) == dbTenants[tenant] # NoRow

\* SELECT timezone FROM tenants WHERE number = ?  (undefined when no row)
TimezoneOf(tenant) ==
    IF TenantExists(tenant) THEN dbTenants[tenant].timezone ELSE "undefined"

\* ------------------------------------------------------------ the timers

RunningTimers == {k \in 1..Len(timers) : timers[k].running}

RunningFor(j) == {k \in RunningTimers : timers[k].job.id = j}

\* A stopped CronJob that nothing refers to any more is garbage: all of them
\* look alike, and a new CronJob may take the place of one.
Garbage == [job |-> NoRow, tz |-> "none", running |-> FALSE]

\* cronJob.stop()
Stopped(ts, k) == [ts EXCEPT ![k] = Garbage]

\* new CronJob(`${job.minute} ${job.hour} * * *`, callback, null, true, timeZone)
NewTimer(job) == [job |-> job, tz |-> TimezoneOf(job.tenant), running |-> TRUE]

\* ts with one more CronJob object in it.
Constructed(ts, timer) ==
    LET free == {k \in 1..Len(ts) : ts[k] = Garbage}
    IN  IF free = {} THEN Append(ts, timer)
        ELSE [ts EXCEPT ![CHOOSE k \in free : \A f \in free : k <= f] = timer]

IndexOfNew(ts) ==
    LET free == {k \in 1..Len(ts) : ts[k] = Garbage}
    IN  IF free = {} THEN Len(ts) + 1 ELSE CHOOSE k \in free : \A f \in free : k <= f

\* createPrompt without the stop() of the timer it replaces.
createPrompt_NoStop(job) ==
    IF job = NoRow
    THEN UNCHANGED <<cronJobs, timers>>
    ELSE /\ timers' = Constructed(timers, NewTimer(job))
         /\ cronJobs' = [cronJobs EXCEPT ![job.id] = IndexOfNew(timers)]

\* createPrompt(job): stop the timer registered for job.id, construct and start
\* a new CronJob with the tenant's timezone as stored now, and register it.
createPrompt(job) ==
    IF job = NoRow
    THEN UNCHANGED <<cronJobs, timers>>
    ELSE LET old == cronJobs[job.id]
             kept == IF old # 0 THEN Stopped(timers, old) ELSE timers
         IN  /\ timers' = Constructed(kept, NewTimer(job))
             /\ cronJobs' = [cronJobs EXCEPT ![job.id] = IndexOfNew(kept)]

\* ---------------------------------------------------------------- tasks

Idle == [kind |-> "none", pc |-> "idle", tenant |-> "none", job |-> NoRow,
         thread |-> 0, assistant |-> 0, interval |-> FALSE, round |-> 0,
         event |-> "none", calls |-> << >>, subs |-> << >>,
         instructions |-> "none", answer |-> "none", resolved |-> FALSE,
         result |-> "none", sent |-> << >>]

\* Startup is synchronous module code: nothing else runs before it is over.
Started == startupTodo = {}

IdleTasks == {t \in Tasks : tasks[t].kind = "none"}

\* Handlers take the lowest free slot; slots carry no meaning of their own.
FreeSlot == CHOOSE t \in IdleTasks : \A u \in IdleTasks : t <= u

\* resolve(value) of the promise createMessage returned, and the code that
\* awaits it: the message handler clears its typing interval and sends the
\* answer to the chat, the cron callback sends it to job.tenant.
Resolve(task, value) ==
    IF task.resolved THEN task
    ELSE [task EXCEPT !.resolved = TRUE, !.result = value, !.interval = FALSE,
                      !.sent = Append(@, [to |-> task.tenant, text |-> value])]

\* createMessage once getAssistant has returned: append the user message and
\* open the run's stream.  The await on messages.create touches nothing the
\* other handlers share, so the stream is open when this step is over.
OpenStream(task) == [task EXCEPT !.pc = "streaming"]

\* const system = SELECT system FROM tenants WHERE number = ?;  !system is
\* false: there is a row and its system text is not empty.
HasSystem(tenant) == TenantExists(tenant) /\ dbTenants[tenant].system # ""

\* getAssistant(tenant), up to its first await on the model API, as the first
\* statement of createMessage.
EnterCreateMessage(task) ==
    IF ~HasSystem(task.tenant)
    THEN [task EXCEPT !.pc = "rejected"]
    ELSE IF assistants[task.tenant] = 0
         THEN [task EXCEPT !.pc = "createAssistant",
                           !.instructions = dbTenants[task.tenant].system]
         ELSE OpenStream([task EXCEPT !.assistant = assistants[task.tenant]])

\* telegramBot.on("message") for a message with text (one without returns at
\* once and changes nothing): start the typing interval and call getThread,
\* which returns the cached thread or awaits createThread.
Message(tenant) ==
    /\ Started
    /\ IdleTasks # {}
    /\ LET t == FreeSlot
           task == [Idle EXCEPT !.kind = "message", !.tenant = tenant, !.interval = TRUE]
       IN  tasks' = [tasks EXCEPT ![t] =
                IF threads[tenant] = 0
                THEN [task EXCEPT !.pc = "createThread"]
                ELSE EnterCreateMessage([task EXCEPT !.thread = threads[tenant]])]
    /\ UNCHANGED <<functions, tools, regLog,
                   agentBuild, dbTenants, dbJobs, dbSeq, startupTodo, cronJobs, timers,
                   assistants, agents, threads, threadMeta, dispatched>>

\* A CronJob callback that asks getThread for the thread: it takes the
\* tenant's cached interactive thread when there is one.
TimerFires_UsesCache(k) ==
    /\ Started
    /\ k \in RunningTimers
    /\ IdleTasks # {}
    /\ LET tenant == timers[k].job.tenant
           task == [Idle EXCEPT !.kind = "fire", !.tenant = tenant, !.job = timers[k].job]
       IN  tasks' = [tasks EXCEPT ![FreeSlot] =
                IF threads[tenant] = 0
                THEN [task EXCEPT !.pc = "createThread"]
                ELSE EnterCreateMessage([task EXCEPT !.thread = threads[tenant]])]
    /\ UNCHANGED <<functions, tools, regLog,
                   agentBuild, dbTenants, dbJobs, dbSeq, startupTodo, cronJobs, timers,
                   assistants, agents, threads, threadMeta, dispatched>>

\* The CronJob callback of a running timer starts: createThread(job.tenant).
TimerFires(k) ==
    /\ Started
    /\ k \in RunningTimers
    /\ IdleTasks # {}
    /\ tasks' = [tasks EXCEPT ![FreeSlot] =
            [Idle EXCEPT !.kind = "fire", !.tenant = timers[k].job.tenant,
                         !.job = timers[k].job, !.pc = "createThread"]]
    /\ UNCHANGED <<functions, tools, regLog,
                   agentBuild, dbTenants, dbJobs, dbSeq, startupTodo, cronJobs, timers,
                   assistants, agents, threads, threadMeta, dispatched>>

\* getThread after createThread returned: cache the new thread and return the
\* cache entry.
getThread(t, id) ==
    /\ threads' = [threads EXCEPT ![tasks[t].tenant] = id]
    /\ tasks' = [tasks EXCEPT ![t] = EnterCreateMessage([@ EXCEPT !.thread = id])]

\* client.beta.threads.create answers the task's createThread call.
CreateThreadReturns(t) ==
    /\ tasks[t].pc = "createThread"
    /\ threadMeta' = Append(threadMeta, [tenant |-> tasks[t].tenant, by |-> tasks[t].kind])
    /\ IF tasks[t].kind = "message"
       THEN getThread(t, Len(threadMeta) + 1)
       ELSE /\ tasks' = [tasks EXCEPT ![t] =
                    EnterCreateMessage([@ EXCEPT !.thread = Len(threadMeta) + 1])]
            /\ UNCHANGED threads
    /\ UNCHANGED <<functions, tools, regLog,
                   agentBuild, dbTenants, dbJobs, dbSeq, startupTodo, cronJobs, timers,
                   assistants, agents, dispatched>>

\* getAssistant after createAssistant returned: cache the new agent and return
\* the cache entry.
getAssistant(t, id) ==
    /\ assistants' = [assistants EXCEPT ![tasks[t].tenant] = id]
    /\ tasks' = [tasks EXCEPT ![t] =
            OpenStream([@ EXCEPT !.assistant = id, !.instructions = "none"])]

\* openai.beta.assistants.create answers the task's createAssistant call.
CreateAssistantReturns(t) ==
    /\ tasks[t].pc = "createAssistant"
    /\ agents' = Append(agents, [tenant |-> tasks[t].tenant,
                                 instructions |-> tasks[t].instructions])
    /\ getAssistant(t, Len(agents) + 1)
    /\ UNCHANGED <<functions, tools, regLog,
                   agentBuild, dbTenants, dbJobs, dbSeq, startupTodo, cronJobs, timers,
                   threads, threadMeta, dispatched>>

\* ----------------------------------------------------------- tool calls

\* The parsed arguments of a tool call; NULL and "none" stand for a property
\* the call leaves out.
Args(id, hour, minute, prompt) ==
    [id |-> id, hour |-> hour, minute |-> minute, prompt |-> prompt,
     system |-> "none", timezone |-> "none"]

TenantArgs(system, timezone) ==
    [Args(NULL, NULL, NULL, "none") EXCEPT !.system = system, !.timezone = timezone]

\* The tool calls the upstream model asks for.
ToolCalls ==
    { [name |-> "create_prompt", args |-> Args(NULL, h, m, p)] :
        h \in ArgHours, m \in ArgMinutes, p \in Prompts }
    \cup { [name |-> "edit_prompt", args |-> Args(i, h, NULL, "none")] :
        i \in JobIds, h \in {NULL, 9} }
    \cup { [name |-> "delete_prompt", args |-> Args(i, NULL, NULL, "none")] : i \in JobIds }
    \cup { [name |-> "bing_web_search", args |-> Args(NULL, NULL, NULL, "none")] }
    \cup { [name |-> "retrieve_prompts", args |-> Args(NULL, NULL, NULL, "none")] }
    \cup { [name |-> "edit_tenant", args |-> TenantArgs(a[1], a[2])] : a \in TenantEdits }
    \* a call without the id its schema requires, and one for a name that
    \* was never registered
    \cup { [name |-> "delete_prompt", args |-> Args(NULL, NULL, NULL, "none")] }
    \cup { [name |-> "unknown_tool", args |-> Args(NULL, NULL, NULL, "none")] }

\* The zod schema each tool was registered with.
Conforms(name, args) ==
    CASE name = "create_prompt" ->
            /\ args.prompt # "none"
            /\ args.hour \in 0..23
            /\ args.minute = NULL \/ args.minute \in 0..59
      [] name = "edit_prompt" ->
            /\ args.id # NULL
            /\ args.hour = NULL \/ args.hour \in 0..23
            /\ args.minute = NULL \/ args.minute \in 0..59
      [] name = "delete_prompt" -> args.id # NULL
      [] OTHER -> TRUE

Batches == UNION { [1..n -> ToolCalls] : n \in 1..MaxBatch }

\* The names registerFunction has put into the functions table.
Registered == {name \in ToolNames : functions[name] # "undefined"}

\* registerFunction(name, description, parameters, fn)
registerFunction_KeepsFirst(name, description, fn) ==
    /\ functions' = IF functions[name] = "undefined"
                    THEN [functions EXCEPT ![name] = fn] ELSE functions
    /\ tools' = IF tools[name] = "undefined"
                THEN [tools EXCEPT ![name] = description] ELSE tools

registerFunction(name, description, fn) ==
    /\ functions' = [functions EXCEPT ![name] = fn]
    /\ tools' = [tools EXCEPT ![name] = description]

\* A call of registerFunction, made as the module loads: before any handler
\* of the bot runs.
Register(name, description, fn) ==
    /\ IdleTasks = Tasks
    /\ Len(regLog) < Len(LoadLog) + MaxRegs
    /\ registerFunction(name, description, fn)
    /\ regLog' = Append(regLog, [name |-> name, description |-> description, fn |-> fn])
    /\ UNCHANGED <<agentBuild, dbTenants, dbJobs, dbSeq, startupTodo, cronJobs, timers,
                   assistants, agents, threads, threadMeta, tasks, dispatched>>

Indices(calls, status) == {i \in 1..Len(calls) : calls[i].status = status}

Creates(calls) == {i \in 1..Len(calls) : calls[i].name = "create_prompt"}

\* INSERTs still to come from handlers in flight.
PendingInserts ==
    LET n[t \in 0..MaxTasks] ==
            IF t = 0 THEN 0
            ELSE n[t - 1] + Cardinality(Creates(tasks[t].calls)
                                        \cap Indices(tasks[t].calls, "await"))
    IN  n[MaxTasks]

\* SELECT * FROM jobs WHERE id = ?  (no row for an id that is no id)
RowOf(id) == IF id \in JobIds THEN dbJobs[id] ELSE NoRow

\* COALESCE(?, column)
Coalesce(arg, column) == IF arg = NULL THEN column ELSE arg

\* The same query with ORDER BY id ASC: the tenant's oldest row.
LastJobOf_Oldest(jobs, tenant) ==
    LET own == {i \in JobIds : jobs[i] # NoRow /\ jobs[i].tenant = tenant}
    IN  IF own = {} THEN NoRow
        ELSE jobs[CHOOSE i \in own : \A k \in own : i <= k]

\* SELECT * FROM jobs WHERE tenant = ? ORDER BY id DESC LIMIT 1
LastJobOf(jobs, tenant) ==
    LET own == {i \in JobIds : jobs[i] # NoRow /\ jobs[i].tenant = tenant}
    IN  IF own = {} THEN NoRow
        ELSE jobs[CHOOSE i \in own : \A k \in own : k <= i]

\* The id the store gives the next row of jobs (id PRIMARY KEY AUTOINCREMENT).
NewJobId == dbSeq + 1

\* The handler of create_prompt after threads.retrieve: insert the row, then
\* register the tenant's newest row.
create_prompt(args, tenant) ==
    LET id == NewJobId
        jobs == [dbJobs EXCEPT ![id] = Job(id, tenant, args.hour, args.minute, args.prompt)]
    IN  /\ dbJobs' = jobs
        /\ dbSeq' = id
        /\ createPrompt(LastJobOf(jobs, tenant))

\* The handler of edit_prompt after threads.retrieve: update the tenant's row
\* with that id and, when a row changed, register it again.
edit_prompt(args, tenant) ==
    LET row == RowOf(args.id)
        hit == row # NoRow /\ row.tenant = tenant
        jobs == IF hit
                THEN [dbJobs EXCEPT ![args.id] =
                        Job(row.id, row.tenant, Coalesce(args.hour, row.hour),
                            Coalesce(args.minute, row.minute),
                            IF args.prompt = "none" THEN row.prompt ELSE args.prompt)]
                ELSE dbJobs
    IN  /\ dbJobs' = jobs
        /\ UNCHANGED dbSeq
        /\ IF hit THEN createPrompt(jobs[args.id]) ELSE UNCHANGED <<cronJobs, timers>>

\* delete_prompt that stops the timer and leaves it in cronJobs.
delete_prompt_KeepsEntry(args, tenant) ==
    LET row == RowOf(args.id)
        hit == row # NoRow /\ row.tenant = tenant
    IN  /\ dbJobs' = IF hit THEN [dbJobs EXCEPT ![args.id] = NoRow] ELSE dbJobs
        /\ UNCHANGED <<dbSeq, cronJobs>>
        /\ IF hit /\ cronJobs[args.id] # 0
           THEN timers' = Stopped(timers, cronJobs[args.id])
           ELSE UNCHANGED timers

\* delete_prompt that takes the timer out of cronJobs and does not stop it.
delete_prompt_NoStop(args, tenant) ==
    LET row == RowOf(args.id)
        hit == row # NoRow /\ row.tenant = tenant
    IN  /\ dbJobs' = IF hit THEN [dbJobs EXCEPT ![args.id] = NoRow] ELSE dbJobs
        /\ UNCHANGED <<dbSeq, timers>>
        /\ IF hit /\ cronJobs[args.id] # 0
           THEN cronJobs' = [cronJobs EXCEPT ![args.id] = 0]
           ELSE UNCHANGED cronJobs

\* delete_prompt whose DELETE leaves out the id: WHERE tenant = ?.
delete_prompt_AllOfTenant(args, tenant) ==
    LET gone == {i \in JobIds : dbJobs[i] # NoRow /\ dbJobs[i].tenant = tenant}
        hit == gone # {}
    IN  /\ dbJobs' = [i \in JobIds |-> IF i \in gone THEN NoRow ELSE dbJobs[i]]
        /\ UNCHANGED dbSeq
        /\ IF hit /\ args.id \in JobIds /\ cronJobs[args.id] # 0
           THEN /\ timers' = Stopped(timers, cronJobs[args.id])
                /\ cronJobs' = [cronJobs EXCEPT ![args.id] = 0]
           ELSE UNCHANGED <<cronJobs, timers>>

\* delete_prompt whose DELETE leaves out the tenant: WHERE id = ?.
delete_prompt_AnyTenant(args, tenant) ==
    LET row == RowOf(args.id)
        hit == row # NoRow
    IN  /\ dbJobs' = IF hit THEN [dbJobs EXCEPT ![args.id] = NoRow] ELSE dbJobs
        /\ UNCHANGED dbSeq
        /\ IF hit /\ cronJobs[args.id] # 0
           THEN /\ timers' = Stopped(timers, cronJobs[args.id])
                /\ cronJobs' = [cronJobs EXCEPT ![args.id] = 0]
           ELSE UNCHANGED <<cronJobs, timers>>

\* The handler of delete_prompt after threads.retrieve: delete the tenant's
\* row with that id and, when a row went and a timer is registered, stop and
\* unregister the timer.
delete_prompt(args, tenant) ==
    LET row == RowOf(args.id)
        hit == row # NoRow /\ row.tenant = tenant
    IN  /\ dbJobs' = IF hit THEN [dbJobs EXCEPT ![args.id] = NoRow] ELSE dbJobs
        /\ UNCHANGED dbSeq
        /\ IF hit /\ cronJobs[args.id] # 0
           THEN /\ timers' = Stopped(timers, cronJobs[args.id])
                /\ cronJobs' = [cronJobs EXCEPT ![args.id] = 0]
           ELSE UNCHANGED <<cronJobs, timers>>

\* The handler of retrieve_prompts after threads.retrieve:
\* SELECT id, prompt, hour, minute FROM jobs WHERE tenant = ?
retrieve_prompts(tenant) ==
    { [id |-> i, prompt |-> dbJobs[i].prompt, hour |-> dbJobs[i].hour,
       minute |-> dbJobs[i].minute] : i \in {k \in StoredIds : dbJobs[k].tenant = tenant} }

\* What the handler of a call returns: the rows for retrieve_prompts; of the
\* other handlers' results nothing is kept.
ResultOf(call, tenant) ==
    IF call.fn = "retrieve_prompts" THEN retrieve_prompts(tenant) ELSE {}

\* UPDATE tenants SET system = COALESCE(?, system),
\*                    timezone = COALESCE(?, timezone) WHERE number = ?
UpdatedTenant(row, args) ==
    [system |-> IF args.system = "none" THEN row.system ELSE args.system,
     timezone |-> IF args.timezone = "none" THEN row.timezone ELSE args.timezone]

\* edit_tenant that also moves the tenant's running timers to the new zone.
edit_tenant_MovesTimers(args, tenant) ==
    LET row == dbTenants[tenant]
        new == UpdatedTenant(row, args)
    IN  /\ row # NoRow
        /\ dbTenants' = [dbTenants EXCEPT ![tenant] = new]
        /\ agents' = [agents EXCEPT ![assistants[tenant]].instructions = new.system]
        /\ timers' = [k \in 1..Len(timers) |->
                        IF timers[k].running /\ timers[k].job.tenant = tenant
                        THEN [timers[k] EXCEPT !.tz = new.timezone] ELSE timers[k]]
        /\ UNCHANGED <<assistants, dbJobs, dbSeq, cronJobs>>

\* edit_tenant that drops the tenant's cache entry instead of updating the
\* cached agent.
edit_tenant_Invalidates(args, tenant) ==
    LET row == dbTenants[tenant]
    IN  /\ row # NoRow
        /\ dbTenants' = [dbTenants EXCEPT ![tenant] = UpdatedTenant(row, args)]
        /\ assistants' = [assistants EXCEPT ![tenant] = 0]
        /\ UNCHANGED <<agents, dbJobs, dbSeq, cronJobs, timers>>

\* The handler of edit_tenant after threads.retrieve: update the tenant's
\* row and, when a row changed, send the stored system text to the tenant's
\* cached agent as its instructions (the update request is not awaited).
\* Nothing else is touched.
edit_tenant(args, tenant) ==
    LET row == dbTenants[tenant]
        new == UpdatedTenant(row, args)
    IN  /\ IF row = NoRow
           THEN UNCHANGED <<dbTenants, agents>>
           ELSE /\ dbTenants' = [dbTenants EXCEPT ![tenant] = new]
                /\ agents' = [agents EXCEPT
                                ![assistants[tenant]].instructions = new.system]
        /\ UNCHANGED <<assistants, dbJobs, dbSeq, cronJobs, timers>>

\* ------------------------------------------------------ the EventHandler

\* { tool_call_id: toolCall.id, output: JSON.stringify(result) }
Output(call) == [tool_call_id |-> call.id, output |-> call.result]

\* submitToolOutputs: hand the outputs to the run and read the substream.
submitToolOutputs(task, toolOutputs) ==
    [task EXCEPT !.subs = Append(@, toolOutputs), !.pc = "streaming"]

\* A fan-in that submits as soon as one dispatch has fulfilled, with the
\* outputs it has by then.
handleRequiresAction_Eager(task) ==
    IF task.pc # "dispatching" THEN task
    ELSE IF Indices(task.calls, "thrown") # {}
         THEN [task EXCEPT !.pc = "aborted"]
         ELSE IF Indices(task.calls, "ok") # {}
              THEN LET got == SelectSeq(task.calls, LAMBDA c : c.status = "ok")
                   IN  submitToolOutputs(task, [i \in 1..Len(got) |-> Output(got[i])])
              ELSE task

\* No fan-in: every dispatch that fulfils submits its own output.
handleRequiresAction_PerCall(task) ==
    IF task.pc \notin {"dispatching", "streaming"} THEN task
    ELSE IF Indices(task.calls, "thrown") # {}
         THEN [task EXCEPT !.pc = "aborted"]
         ELSE IF Indices(task.calls, "ok") # {}
              THEN LET got == SelectSeq(task.calls, LAMBDA c : c.status = "ok")
                   IN  submitToolOutputs(task, <<Output(got[Len(got)])>>)
              ELSE task

\* The fan-in of handleRequiresAction, Promise.all over the dispatches, looked
\* at when one of them settles: the first rejection ends the round in the
\* catch block, the last fulfilment submits the outputs in call order.
handleRequiresAction(task) ==
    IF task.pc # "dispatching" THEN task
    ELSE IF Indices(task.calls, "thrown") # {}
         THEN [task EXCEPT !.pc = "aborted"]
         ELSE IF Indices(task.calls, "ok") = 1..Len(task.calls)
              THEN submitToolOutputs(task, [i \in 1..Len(task.calls) |-> Output(task.calls[i])])
              ELSE task

\* The fan-out of handleRequiresAction: every call's handler is invoked; a
\* registered handler runs up to its first await, a name without a handler
\* throws at once.
Dispatch(task, batch) ==
    handleRequiresAction(
        [task EXCEPT !.pc = "dispatching", !.round = @ + 1, !.event = "requires_action",
                     !.calls = [i \in 1..Len(batch) |->
                        [id |-> <<task.round + 1, i>>, name |-> batch[i].name,
                         args |-> batch[i].args, fn |-> functions[batch[i].name],
                         result |-> {},
                         status |-> IF batch[i].name \in Registered
                                    THEN "await" ELSE "thrown"]]])

\* onEvent of a handler whose substreams are read without the resolve
\* callback of the first stream.
onEvent_FirstStreamOnly(task, event, answer) ==
    LET seen == [task EXCEPT !.pc = "ended", !.event = event, !.answer = answer,
                             !.calls = << >>, !.subs = << >>]
    IN  IF task.round # 0 THEN seen
        ELSE CASE event = "thread.run.completed" ->
                    IF answer = "text" THEN Resolve(seen, "text") ELSE seen
              [] event = "thread.run.failed" ->
                    IF agentBuild = "part_000" THEN Resolve(seen, "failed") ELSE seen
              [] OTHER -> seen

\* onEvent for the events that end a run's stream.  answer is the type of
\* the first content item of the newest assistant message, "none" without one.
onEvent(task, event, answer) ==
    LET seen == [task EXCEPT !.pc = "ended", !.event = event, !.answer = answer,
                             !.calls = << >>, !.subs = << >>]
    IN  CASE event = "thread.run.completed" ->
                IF answer = "text" THEN Resolve(seen, "text") ELSE seen
          [] event = "thread.run.failed" ->
                IF agentBuild = "part_000" THEN Resolve(seen, "failed") ELSE seen
          [] OTHER -> seen

\* The run's stream yields thread.run.requires_action with a batch.
RequiresAction(t) ==
    /\ tasks[t].pc = "streaming"
    /\ tasks[t].round < MaxRounds
    /\ dispatched < MaxCalls
    /\ \E batch \in Batches :
        /\ dispatched + Len(batch) <= MaxCalls
        /\ dbSeq + PendingInserts + Cardinality(Creates(batch)) <= MaxJobs
        /\ dispatched' = dispatched + Len(batch)
        /\ tasks' = [tasks EXCEPT ![t] = Dispatch(@, batch)]
    /\ UNCHANGED <<functions, tools, regLog,
                   agentBuild, dbTenants, dbJobs, dbSeq, startupTodo, cronJobs, timers,
                   assistants, agents, threads, threadMeta>>

\* The run's stream yields the event that ends the run.
RunEnds(t, event, answer) ==
    /\ tasks[t].pc = "streaming"
    /\ event = "thread.run.completed" \/ answer = "none"
    /\ tasks' = [tasks EXCEPT ![t] = onEvent(@, event, answer)]
    /\ UNCHANGED <<functions, tools, regLog,
                   agentBuild, dbTenants, dbJobs, dbSeq, startupTodo, cronJobs, timers,
                   assistants, agents, threads, threadMeta, dispatched>>

\* One dispatched handler comes back from its await and runs to its end: the
\* handlers of index.ts read the tenant from the thread's metadata and work on
\* the store and the timers; the web search returns or throws.
ToolReturns(t, i, ok) ==
    LET call == tasks[t].calls[i]
        tenant == threadMeta[tasks[t].thread].tenant
    IN  /\ i \in Indices(tasks[t].calls, "await")
        /\ CASE call.fn = "create_prompt" -> ok /\ create_prompt(call.args, tenant)
             [] call.fn = "edit_prompt" -> ok /\ edit_prompt(call.args, tenant)
             [] call.fn = "delete_prompt" -> ok /\ delete_prompt(call.args, tenant)
             [] call.fn = "edit_tenant" -> ok /\ edit_tenant(call.args, tenant)
             [] call.fn = "retrieve_prompts" ->
                    ok /\ UNCHANGED <<dbJobs, dbSeq, cronJobs, timers>>
             [] OTHER -> UNCHANGED <<dbJobs, dbSeq, cronJobs, timers>>
        /\ call.fn = "edit_tenant" \/ UNCHANGED <<dbTenants, agents, assistants>>
        /\ tasks' = [tasks EXCEPT ![t] = handleRequiresAction(
                        [@ EXCEPT !.calls[i].status = IF ok THEN "ok" ELSE "thrown",
                                  !.calls[i].result = IF ok THEN ResultOf(call, tenant)
                                                      ELSE {}])]
        /\ UNCHANGED <<functions, tools, regLog,
                       agentBuild, startupTodo, threads, threadMeta, dispatched>>

\* ------------------------------------------------------------------ Init

InitJobs ==
    { [i \in JobIds |-> IF i = 1 THEN Job(1, "t1", 8, 30, "p") ELSE NoRow],
      [i \in JobIds |-> IF i = 1 THEN Job(1, "t1", 8, 30, "p")
                        ELSE IF i = 2 THEN Job(2, "t2", 9, 30, "p") ELSE NoRow] }

MaxId(jobs) ==
    IF \A i \in JobIds : jobs[i] = NoRow THEN 0
    ELSE CHOOSE i \in JobIds : jobs[i] # NoRow /\ \A k \in JobIds : jobs[k] # NoRow => k <= i

Init ==
    /\ agentBuild \in Builds
    /\ dbTenants = [t \in Tenants |-> IF t \in StoredTenants
                                      THEN [system |-> "s", timezone |-> "Europe/Berlin"]
                                      ELSE NoRow]
    /\ dbJobs \in InitJobs
    /\ dbSeq = MaxId(dbJobs)
    /\ startupTodo = {i \in JobIds : dbJobs[i] # NoRow}
    /\ cronJobs = [i \in JobIds |-> 0]
    /\ timers = << >>
    /\ assistants = [t \in Tenants |-> 0]
    /\ agents = << >>
    /\ threads = [t \in Tenants |-> 0]
    /\ threadMeta = << >>
    /\ tasks = [t \in Tasks |-> Idle]
    /\ dispatched = 0
    /\ regLog = LoadLog
    /\ functions = [name \in ToolNames |->
                        IF \E i \in 1..Len(LoadLog) : LoadLog[i].name = name
                        THEN name ELSE "undefined"]
    /\ tools = [name \in ToolNames |->
                    IF \E i \in 1..Len(LoadLog) : LoadLog[i].name = name
                    THEN "d0" ELSE "undefined"]

\* for (const job of db.prepare("SELECT * FROM jobs").all()) createPrompt(job)
StartupRegister ==
    /\ startupTodo # {}
    /\ LET i == CHOOSE i \in startupTodo : \A k \in startupTodo : i <= k
       IN  /\ createPrompt(dbJobs[i])
           /\ startupTodo' = startupTodo \ {i}
    /\ UNCHANGED <<functions, tools, regLog,
                   agentBuild, dbTenants, dbJobs, dbSeq, assistants, agents,
                   threads, threadMeta, tasks, dispatched>>

\* The whole program: any number of handlers in flight, each run going
\* through tool rounds.
Next ==
    \/ StartupRegister
    \/ \E tenant \in Tenants : Message(tenant)
    \/ \E k \in 1..Len(timers) : TimerFires(k)
    \/ \E t \in Tasks : CreateThreadReturns(t)
    \/ \E t \in Tasks : CreateAssistantReturns(t)
    \/ \E t \in Tasks : RequiresAction(t)
    \/ \E t \in Tasks, event \in RunEndEvents, answer \in Answers : RunEnds(t, event, answer)
    \/ \E t \in Tasks, i \in 1..MaxBatch, ok \in BOOLEAN : ToolReturns(t, i, ok)

Spec == Init /\ [][Next]_vars

\* Sessions: handlers in flight at the same time, with an upstream that asks
\* for no tool.
NextSession ==
    \/ StartupRegister
    \/ \E tenant \in Tenants : Message(tenant)
    \/ \E k \in 1..Len(timers) : TimerFires(k)
    \/ \E t \in Tasks : CreateThreadReturns(t)
    \/ \E t \in Tasks : CreateAssistantReturns(t)
    \/ \E t \in Tasks, event \in RunEndEvents, answer \in Answers : RunEnds(t, event, answer)

SpecSession == Init /\ [][NextSession]_vars

\* One run: a message or a timer fire comes in while nothing else is in
\* flight, and its run goes through tool rounds to its end.
Quiet == IdleTasks = Tasks

NextRun ==
    \/ StartupRegister
    \/ \E tenant \in Tenants : Quiet /\ Message(tenant)
    \/ \E k \in 1..Len(timers) : Quiet /\ TimerFires(k)
    \/ \E t \in Tasks : CreateThreadReturns(t)
    \/ \E t \in Tasks : CreateAssistantReturns(t)
    \/ \E t \in Tasks : RequiresAction(t)
    \/ \E t \in Tasks, event \in RunEndEvents, answer \in Answers : RunEnds(t, event, answer)
    \/ \E t \in Tasks, i \in 1..MaxBatch, ok \in BOOLEAN : ToolReturns(t, i, ok)

SpecRun == Init /\ [][NextRun]_vars

\* Scheduling: the tool handlers of runs in flight at the same time and the
\* timers firing among them.  How a run ends changes neither the store nor
\* the timers, and is left out; so is which agent module is loaded.
\* Registration: further registerFunction calls before the bot's handlers run,
\* then one handler at a time and its tool rounds.
NextRegistry ==
    \/ StartupRegister
    \/ \E name \in RegNames, r \in Registrations : Register(name, r[1], r[2])
    \/ \E tenant \in StoredTenants : Quiet /\ Message(tenant)
    \/ \E t \in Tasks : CreateThreadReturns(t)
    \/ \E t \in Tasks : CreateAssistantReturns(t)
    \/ \E t \in Tasks : RequiresAction(t)
    \/ \E t \in Tasks, i \in 1..MaxBatch, ok \in BOOLEAN : ToolReturns(t, i, ok)

SpecRegistry == Init /\ [][NextRegistry]_vars

InitSched == Init /\ agentBuild = "part_000"

NextSched ==
    \/ StartupRegister
    \/ \E tenant \in StoredTenants : Message(tenant)
    \/ \E k \in 1..Len(timers) : TimerFires(k)
    \/ \E t \in Tasks : CreateThreadReturns(t)
    \/ \E t \in Tasks : CreateAssistantReturns(t)
    \/ \E t \in Tasks : RequiresAction(t)
    \/ \E t \in Tasks, i \in 1..MaxBatch, ok \in BOOLEAN : ToolReturns(t, i, ok)

SpecSched == InitSched /\ [][NextSched]_vars

\* ------------------------------------------------------------ the claims

\* A tool call of a task that has run to its end without throwing.
Done(name) ==
    {c \in UNION {{tasks[t].calls[i] : i \in 1..Len(tasks[t].calls)} : t \in Tasks} :
        c.name = name /\ c.status = "ok"}

\* C1: every job id has at most one running timer, that timer is the one
\* cronJobs holds for the id (the one registered last), and it fires at the
\* hour and minute of the row it was registered with last, the store's row.
C1_OneRunningTimerPerJob ==
    \A j \in JobIds :
        /\ Cardinality(RunningFor(j)) <= 1
        /\ \A k \in RunningFor(j) :
            /\ cronJobs[j] = k
            /\ dbJobs[j] # NoRow
            /\ timers[k].job.hour = dbJobs[j].hour
            /\ timers[k].job.minute = dbJobs[j].minute

\* Job 1, registered at startup for 8:30, has been registered again by an
\* edit_prompt to hour 9 and its timer fires at 9:30.
C1_Witness ==
    /\ \E c \in Done("edit_prompt") : c.args.id = 1 /\ c.args.hour = 9
    /\ cronJobs[1] # 0
    /\ timers[cronJobs[1]].running
    /\ timers[cronJobs[1]].job.hour = 9

\* C2: every job id with a timer in cronJobs is the id of a row of the jobs
\* table.
C2_TimersOnlyForStoredJobs ==
    \A j \in JobIds : cronJobs[j] # 0 => dbJobs[j] # NoRow

\* A delete_prompt has deleted the row of a job that had a timer, and the
\* id is out of cronJobs.
C2_Witness ==
    \E c \in Done("delete_prompt") :
        /\ c.args.id \in JobIds
        /\ dbJobs[c.args.id] = NoRow
        /\ c.args.id <= dbSeq
        /\ cronJobs[c.args.id] = 0

C4_NoFireAfterDelete ==
    [][ /\ \A k \in RunningTimers' : dbJobs'[timers'[k].job.id] # NoRow
        /\ \A t \in Tasks :
            tasks[t].kind = "none" /\ tasks'[t].kind = "fire"
                => dbJobs[tasks'[t].job.id] # NoRow ]_vars

\* A delete_prompt has deleted a job while a fire of that job, begun before,
\* is still in flight; no timer is left running for the job.
C4_Witness ==
    \E c \in Done("delete_prompt") :
        /\ c.args.id \in JobIds
        /\ dbJobs[c.args.id] = NoRow
        /\ RunningFor(c.args.id) = {}
        /\ \E t \in Tasks : tasks[t].kind = "fire" /\ tasks[t].job.id = c.args.id

\* C5: a batch in which exactly one handler threw, all others being through,
\* is submitted with one output per call, an error output for the call that
\* threw and a result for each of the others.
C5_ThrowingCallStillSubmitted ==
    \A t \in Tasks :
        LET task == tasks[t]
            calls == task.calls
        IN  /\ calls # << >>
            /\ Indices(calls, "await") = {}
            /\ Cardinality(Indices(calls, "thrown")) = 1
            => /\ Len(task.subs) = task.round
               /\ Len(task.subs[task.round]) = Len(calls)
               /\ \A i \in 1..Len(calls) :
                    /\ task.subs[task.round][i].tool_call_id = calls[i].id
                    /\ task.subs[task.round][i].output = "error" <=> calls[i].status = "thrown"

\* C6: when the outputs of a round have been submitted, every dispatch of
\* the round's batch has finished, and the outputs hold exactly one entry for
\* each call id of the batch and none for any other id.
C6_SubmitAfterAllDispatches ==
    \A t \in Tasks :
        LET task == tasks[t]
            calls == task.calls
        IN  task.round > 0 /\ Len(task.subs) = task.round
            => LET out == task.subs[task.round]
               IN  /\ Indices(calls, "ok") = 1..Len(calls)
                   /\ \A i \in 1..Len(calls) :
                        Cardinality({o \in 1..Len(out) :
                                        out[o].tool_call_id = calls[i].id}) = 1
                   /\ \A o \in 1..Len(out) :
                        \E i \in 1..Len(calls) : out[o].tool_call_id = calls[i].id

\* The outputs of a batch of MaxBatch calls have been submitted.
C6_Witness ==
    \E t \in Tasks :
        /\ tasks[t].round > 0
        /\ Len(tasks[t].subs) = tasks[t].round
        /\ Len(tasks[t].calls) = MaxBatch
        /\ Len(tasks[t].subs[tasks[t].round]) = MaxBatch

\* C7: a run whose stream has reported thread.run.completed has resolved the
\* promise of createMessage, also without a textual assistant message.
C7_CompletedRunResolves ==
    \A t \in Tasks :
        tasks[t].pc = "ended" /\ tasks[t].event = "thread.run.completed"
            => tasks[t].resolved

\* C8: a run whose stream, the first or a substream, has reported
\* thread.run.failed or thread.run.cancelled has resolved the promise of
\* createMessage with a failure message.
C8_FailedOrCancelledRunResolves ==
    \A t \in Tasks :
        /\ tasks[t].pc = "ended"
        /\ tasks[t].event \in {"thread.run.failed", "thread.run.cancelled"}
        => tasks[t].resolved /\ tasks[t].result = "failed"

\* C9: for every tenant at most one agent is ever created, and every
\* getAssistant call for the tenant has returned the same agent.
C9_OneAgentPerTenant ==
    \A tenant \in Tenants :
        /\ Cardinality({a \in 1..Len(agents) : agents[a].tenant = tenant}) <= 1
        /\ \A t, u \in Tasks :
            /\ tasks[t].tenant = tenant /\ tasks[u].tenant = tenant
            /\ tasks[t].assistant # 0 /\ tasks[u].assistant # 0
            => tasks[t].assistant = tasks[u].assistant

\* C10: for every tenant at most one interactive thread is ever created, and
\* every getThread call for the tenant has returned the same thread.
C10_OneInteractiveThreadPerTenant ==
    \A tenant \in Tenants :
        /\ Cardinality({h \in 1..Len(threadMeta) :
                threadMeta[h].tenant = tenant /\ threadMeta[h].by = "message"}) <= 1
        /\ \A t, u \in Tasks :
            /\ tasks[t].kind = "message" /\ tasks[u].kind = "message"
            /\ tasks[t].tenant = tenant /\ tasks[u].tenant = tenant
            /\ tasks[t].thread # 0 /\ tasks[u].thread # 0
            => tasks[t].thread = tasks[u].thread

\* A run is in progress from the moment its stream is opened until the
\* stream reports the event that ends it.
InProgress(t) == tasks[t].pc \in {"streaming", "dispatching"}

\* C11: the interactive runs of one tenant are serialized: no two runs are
\* in progress at the same time on the interactive thread of one tenant.
C11_InteractiveRunsSerialized ==
    \A t, u \in Tasks :
        /\ t # u
        /\ tasks[t].kind = "message" /\ tasks[u].kind = "message"
        /\ tasks[t].tenant = tasks[u].tenant
        /\ tasks[t].thread = tasks[u].thread
        => ~(InProgress(t) /\ InProgress(u))

\* C12: every fire of a job of tenant T starts one run for T and, once the run
\* is over, has delivered exactly one message, to T: never a message to
\* another tenant and never more than one.
C12_OneDeliveryPerFire ==
    \A t \in Tasks :
        tasks[t].kind = "fire" =>
            /\ tasks[t].tenant = tasks[t].job.tenant
            /\ Len(tasks[t].sent) <= 1
            /\ \A m \in 1..Len(tasks[t].sent) : tasks[t].sent[m].to = tasks[t].job.tenant
            /\ tasks[t].pc = "ended" => Len(tasks[t].sent) = 1

\* The registerFunction calls made so far for a name, as places in regLog.
RegsOf(name) == {k \in 1..Len(regLog) : regLog[k].name = name}

LatestReg(name) == regLog[CHOOSE k \in RegsOf(name) : \A m \in RegsOf(name) : m <= k]

\* C13: registerFunction is last-writer-wins: for a name registered more than
\* once the tool descriptor is the one of the latest registration, and a tool
\* call for the name dispatched afterwards invokes the handler of the latest
\* registration.
C13_LastRegistrationWins ==
    [][\A name \in ToolNames :
          RegsOf(name)' # {} =>
            /\ functions'[name] = LatestReg(name)'.fn
            /\ tools'[name] = LatestReg(name)'.description
            /\ \A t \in Tasks :
                  tasks'[t].round = tasks[t].round + 1 =>
                    \A i \in 1..Len(tasks'[t].calls) :
                        tasks'[t].calls[i].name = name
                        => tasks'[t].calls[i].fn = LatestReg(name).fn]_vars

\* A name registered twice with different handlers and descriptions, and a
\* call for it that has run the later handler to its end.
C13_Witness ==
    \E name \in ToolNames, t \in Tasks :
        /\ \E k, m \in RegsOf(name) :
              /\ k < m
              /\ regLog[k].fn # regLog[m].fn
              /\ regLog[k].description # regLog[m].description
        /\ \E i \in 1..Len(tasks[t].calls) :
              /\ tasks[t].calls[i].name = name
              /\ tasks[t].calls[i].status = "ok"
              /\ tasks[t].calls[i].fn = LatestReg(name).fn

\* The handler of the i-th call of task t, registered under the name, runs to
\* its end in this step.
Returns(t, i, name) ==
    /\ i \in 1..Len(tasks[t].calls)
    /\ tasks[t].calls[i].name = name /\ tasks[t].calls[i].fn = name
    /\ tasks[t].calls[i].status = "await"
    /\ tasks'[t].calls[i].status # "await"

\* C14: a delete_prompt call for a job id that is not in the store completes
\* without an error and leaves the jobs of the store, the timer map and every
\* timer as they were.
C14_DeleteOfAbsentJobChangesNothing ==
    [][\A t \in Tasks, i \in 1..MaxBatch :
          Returns(t, i, "delete_prompt") /\ RowOf(tasks[t].calls[i].args.id) = NoRow
          => /\ tasks'[t].calls[i].status = "ok"
             /\ dbJobs' = dbJobs /\ dbSeq' = dbSeq
             /\ cronJobs' = cronJobs /\ timers' = timers]_vars

\* delete_prompt has returned for an id without a row while the tenant of
\* the call has a job with a running timer.
C14_Witness ==
    \E t \in Tasks, i \in 1..MaxBatch, j \in JobIds :
        /\ i \in 1..Len(tasks[t].calls)
        /\ tasks[t].calls[i].name = "delete_prompt"
        /\ tasks[t].calls[i].status = "ok"
        /\ tasks[t].calls[i].args.id \in JobIds \ StoredIds
        /\ dbJobs[j] # NoRow /\ dbJobs[j].tenant = tasks[t].tenant
        /\ RunningFor(j) # {}

\* C15: a tool call whose arguments do not conform to the schema its name was
\* registered with never reaches the handler, and a tool call for a name
\* without a handler fails in a way that is surfaced: the run is not left
\* aborted with the failure only logged.
C15_InvalidCallsRejected ==
    \A t \in Tasks : \A i \in 1..Len(tasks[t].calls) :
        LET call == tasks[t].calls[i]
        IN  /\ ~Conforms(call.name, call.args) => call.status \notin {"await", "ok"}
            /\ call.fn = "undefined" => tasks[t].pc # "aborted"

\* C16: getAssistant fails with "Tenant not found" exactly for a tenant
\* without a row in the store, and then creates no agent and leaves the agent
\* cache as it was; for a tenant with a row it never fails so.
C16_NotFoundOnlyForAbsentTenant ==
    \A t \in Tasks :
        /\ tasks[t].pc = "rejected" =>
              /\ ~TenantExists(tasks[t].tenant)
              /\ tasks[t].assistant = 0
              /\ assistants[tasks[t].tenant] = 0
              /\ \A a \in 1..Len(agents) : agents[a].tenant # tasks[t].tenant
        /\ tasks[t].pc \in {"createAssistant", "streaming", "dispatching"}
              => TenantExists(tasks[t].tenant)

\* C17: a timer has the timezone its tenant had in the store when createPrompt
\* registered it: an edit_tenant call leaves the timer map and every timer as
\* they were, and the timer of a job changes its timezone only when the job is
\* registered again, to the timezone then stored.
C17_TimezoneFixedAtRegistration ==
    [][/\ \A t \in Tasks, i \in 1..MaxBatch :
            Returns(t, i, "edit_tenant") => cronJobs' = cronJobs /\ timers' = timers
       /\ \A j \in JobIds :
            /\ cronJobs[j] # 0 /\ cronJobs'[j] # 0
            /\ timers'[cronJobs'[j]].tz # timers[cronJobs[j]].tz
            => /\ \E t \in Tasks, i \in 1..MaxBatch :
                    /\ Returns(t, i, "edit_prompt")
                    /\ tasks[t].calls[i].args.id = j
               /\ timers'[cronJobs'[j]].tz = TimezoneOf(dbJobs'[j].tenant)
       /\ \A j \in JobIds :
            cronJobs[j] = 0 /\ cronJobs'[j] # 0
            => timers'[cronJobs'[j]].tz = TimezoneOf(dbJobs'[j].tenant)]_vars

\* edit_tenant has changed the timezone of a tenant: a job of the tenant
\* registered before still runs on a timer with the old timezone, a job
\* registered after runs on a timer with the new one.
C17_Witness ==
    \E t \in Tasks, j, k \in JobIds :
        /\ \E i \in 1..Len(tasks[t].calls) :
              /\ tasks[t].calls[i].name = "edit_tenant"
              /\ tasks[t].calls[i].status = "ok"
              /\ tasks[t].calls[i].args.timezone = TimezoneOf(tasks[t].tenant)
        /\ cronJobs[j] # 0 /\ cronJobs[k] # 0
        /\ timers[cronJobs[j]].running /\ timers[cronJobs[k]].running
        /\ timers[cronJobs[j]].job.tenant = tasks[t].tenant
        /\ timers[cronJobs[k]].job.tenant = tasks[t].tenant
        /\ timers[cronJobs[j]].tz # TimezoneOf(tasks[t].tenant)
        /\ timers[cronJobs[k]].tz = TimezoneOf(tasks[t].tenant)

\* C18: an edit_tenant call that sets the system instructions updates the
\* tenant's cached agent in place with the instructions now stored: the cache
\* entry of the tenant is the same agent before and after, no cache entry is
\* removed, and no agent is created.
C18_EditTenantUpdatesAgentInPlace ==
    [][\A t \in Tasks, i \in 1..MaxBatch :
          Returns(t, i, "edit_tenant") /\ tasks[t].calls[i].args.system # "none"
          => LET tenant == threadMeta[tasks[t].thread].tenant
             IN  /\ assistants' = assistants
                 /\ assistants[tenant] # 0
                 /\ Len(agents') = Len(agents)
                 /\ dbTenants'[tenant].system = tasks[t].calls[i].args.system
                 /\ agents'[assistants[tenant]].instructions = dbTenants'[tenant].system
                 /\ \A a \in 1..Len(agents) :
                        /\ agents'[a].tenant = agents[a].tenant
                        /\ a # assistants[tenant] => agents'[a] = agents[a]]_vars

\* edit_tenant has given the tenant new system instructions, and the agent the
\* run started with is still the cached one and carries them.
C18_Witness ==
    \E t \in Tasks :
        /\ \E i \in 1..Len(tasks[t].calls) :
              /\ tasks[t].calls[i].name = "edit_tenant"
              /\ tasks[t].calls[i].status = "ok"
              /\ tasks[t].calls[i].args.system = "s2"
        /\ assistants[tasks[t].tenant] = tasks[t].assistant
        /\ agents[tasks[t].assistant].instructions = "s2"
        /\ dbTenants[tasks[t].tenant].system = "s2"

\* C19: a run that went through tool rounds, each with every handler
\* succeeding, and whose last substream reported thread.run.completed with a
\* text answer has resolved the promise of createMessage with that text, and
\* the caller has sent it on.
C19_ResolveCarriedThroughRounds ==
    \A t \in Tasks :
        /\ tasks[t].pc = "ended" /\ tasks[t].round >= 1
        /\ tasks[t].event = "thread.run.completed" /\ tasks[t].answer = "text"
        => /\ tasks[t].resolved /\ tasks[t].result = "text"
           /\ tasks[t].sent = <<[to |-> tasks[t].tenant, text |-> "text"]>>

\* A run of MaxRounds tool rounds has completed with a text answer.
C19_Witness ==
    \E t \in Tasks :
        /\ tasks[t].pc = "ended" /\ tasks[t].round = MaxRounds
        /\ tasks[t].event = "thread.run.completed" /\ tasks[t].answer = "text"
        /\ tasks[t].resolved

\* C20: the tool rounds of one run are strictly sequential: the stream
\* reports requires-action for round k+1 only when round k has been submitted,
\* the one submission of round k is made while round k is the round under
\* dispatch, and so no second submission is made while the substream of an
\* earlier one is still to report.
C20_RoundsSequential ==
    [][\A t \in Tasks :
          /\ Len(tasks'[t].subs) <= tasks'[t].round
          /\ tasks'[t].pc = "dispatching" => Len(tasks'[t].subs) = tasks'[t].round - 1
          /\ Len(tasks'[t].subs) > Len(tasks[t].subs) =>
                /\ Len(tasks'[t].subs) = Len(tasks[t].subs) + 1
                /\ tasks[t].pc = "dispatching" /\ tasks'[t].pc = "streaming"
                /\ Len(tasks'[t].subs) = tasks[t].round
          /\ tasks'[t].round > tasks[t].round /\ tasks[t].kind # "none" =>
                /\ tasks'[t].round = tasks[t].round + 1
                /\ tasks[t].pc = "streaming"
                /\ Len(tasks[t].subs) = tasks[t].round]_vars

\* The second round of a run has been submitted, after the first.
C20_Witness ==
    \E t \in Tasks :
        /\ tasks[t].round = 2 /\ Len(tasks[t].subs) = 2
        /\ tasks[t].pc = "streaming"
        /\ tasks[t].subs[1][1].tool_call_id = <<1, 1>>
        /\ tasks[t].subs[2][1].tool_call_id = <<2, 1>>

\* C21: the tool rounds of one run are bounded: there is a fixed limit such
\* that a run whose stream asks for more rounds than the limit is stopped and
\* resolved as failed.  The limits looked at are those below MaxRounds, the
\* number of rounds the upstream is followed through.
C21_RoundsBounded ==
    \E limit \in 1..(MaxRounds - 1) :
        \A t \in Tasks :
            tasks[t].round > limit => tasks[t].resolved /\ tasks[t].result = "failed"

\* C22: the typing interval of a message handler does not outlive the
\* handler's work: once getAssistant has thrown, or the run's stream is over,
\* or a tool round was given up, the interval has been cleared.
C22_TypingIntervalCleared ==
    \A t \in Tasks :
        /\ tasks[t].kind = "message"
        /\ tasks[t].pc \in {"rejected", "ended", "aborted"}
        => ~tasks[t].interval

\* C23: a fire runs on a thread created for it: the thread was created by
\* this fire's createThread call for the job's tenant, it is not a thread of
\* the interactive cache, no other handler runs on it, and the cache only
\* ever holds threads that message handlers created.
C23_FiresUseFreshThreads ==
    /\ \A t \in Tasks :
          tasks[t].kind = "fire" /\ tasks[t].thread # 0 =>
            /\ threadMeta[tasks[t].thread].by = "fire"
            /\ threadMeta[tasks[t].thread].tenant = tasks[t].job.tenant
            /\ \A tenant \in Tenants : threads[tenant] # tasks[t].thread
            /\ \A u \in Tasks \ {t} : tasks[u].thread # tasks[t].thread
    /\ \A tenant \in Tenants :
          threads[tenant] # 0 => threadMeta[threads[tenant]].by = "message"

\* A fire of a tenant runs on its own thread while the tenant has an
\* interactive thread in the cache.
C23_Witness ==
    \E t \in Tasks :
        /\ tasks[t].kind = "fire" /\ tasks[t].thread # 0
        /\ tasks[t].pc = "streaming"
        /\ threads[tasks[t].tenant] # 0
        /\ threads[tasks[t].tenant] < tasks[t].thread

\* The tenant a run of task t works for, as its handlers read it from the
\* metadata of the run's thread.
RunTenant(t) == threadMeta[tasks[t].thread].tenant

\* C24: job operations are scoped to the tenant of the run's thread: an
\* edit_prompt or delete_prompt call with the id of a job of another tenant
\* changes no row of the store and leaves the timer map and every timer as
\* they were, and retrieve_prompts returns only jobs of the run's tenant.
C24_JobOperationsTenantScoped ==
    [][\A t \in Tasks, i \in 1..MaxBatch :
          /\ /\ Returns(t, i, "edit_prompt") \/ Returns(t, i, "delete_prompt")
             /\ RowOf(tasks[t].calls[i].args.id) # NoRow
             /\ RowOf(tasks[t].calls[i].args.id).tenant # RunTenant(t)
             => /\ dbJobs' = dbJobs /\ dbSeq' = dbSeq
                /\ cronJobs' = cronJobs /\ timers' = timers
          /\ Returns(t, i, "retrieve_prompts")
             => \A row \in tasks'[t].calls[i].result :
                    /\ row.id \in StoredIds
                    /\ dbJobs[row.id].tenant = RunTenant(t)]_vars

\* In one round of a tenant's run, a delete_prompt or edit_prompt call for a
\* job of another tenant and a retrieve_prompts call have returned: the other
\* tenant's job is in the store with its timer running, and the rows
\* returned are the tenant's own.
C24_Witness ==
    \E t \in Tasks, j \in StoredIds :
        /\ dbJobs[j].tenant # tasks[t].tenant
        /\ RunningFor(j) # {}
        /\ \E i \in 1..Len(tasks[t].calls) :
              /\ tasks[t].calls[i].name \in {"edit_prompt", "delete_prompt"}
              /\ tasks[t].calls[i].status = "ok"
              /\ tasks[t].calls[i].args.id = j
        /\ \E i \in 1..Len(tasks[t].calls) :
              /\ tasks[t].calls[i].name = "retrieve_prompts"
              /\ tasks[t].calls[i].status = "ok"
              /\ tasks[t].calls[i].result # {}

====
